---- MODULE Spec2Model ----
(***************************************************************************)
(* A model of training_utils.py: the DocumentSequence batch generator and  *)
(* the training callbacks SaveDocModels, ReduceLROnPlateauAfterValLoss and *)
(* LearningRateLinearIncrease.                                             *)
(*                                                                         *)
(* Python lists are sequences (index i of Python is index i+1 here).       *)
(* Floating-point quantities (losses, learning rates) are integers in a    *)
(* fixed unit; np.inf is the integer Inf above every finite value.         *)
(***************************************************************************)
EXTENDS Integers, Sequences, FiniteSets, TLC

VARIABLES
    ds,        \* the DocumentSequence object: its attributes
    ret,       \* what the last DocumentSequence.__getitem__ call did
    data0,     \* history: the document collection handed to the constructor
    sdm,       \* the SaveDocModels object
    files,     \* the checkpoint directory: the paths written so far
    run,       \* history of the current training run (per specification)
    rlr,       \* the ReduceLROnPlateauAfterValLoss object
    lri,       \* the LearningRateLinearIncrease object
    lr         \* model.optimizer.lr

vars == <<ds, ret, data0, sdm, files, run, rlr, lri, lr>>

-----------------------------------------------------------------------------
(* Bounds of the model.                                                    *)

MaxDocs == 3
MaxItems == 2
SeqLen == 2

MaxBatch == MaxDocs
MaxSubsample == MaxItems

MaxLoss == 2
MaxEpochs == 3
MaxRuns == 2
MaxPatience == 2
MaxCooldown == 1
MaxWarmup == 2
MaxLr == 2

\* np.inf, above every finite loss.
Inf == MaxLoss + 1
Losses == 0..MaxLoss

Min(a, b) == IF a < b THEN a ELSE b

-----------------------------------------------------------------------------
(* Python and numpy primitives.                                            *)

\* s[a:b] for 0 <= a and 0 <= b: a copy of the elements at indices a..b-1
\* that exist.
Slice(s, a, b) == SubSeq(s, a + 1, Min(b, Len(s)))

\* np.random.shuffle(s): every reordering of s is a possible outcome.
Shuffle(s) ==
    { [i \in 1..Len(s) |-> s[p[i]]] : p \in Permutations(1..Len(s)) }

\* np.zeros((rows, cols)) for rows >= 0.
Zeros(rows, cols) == [r \in 1..rows |-> [c \in 1..cols |-> 0]]

-----------------------------------------------------------------------------
(* The collaborators text_utils and image_utils, which return one row per  *)
(* identifier.                                                             *)

\* The reserved vocabulary indices: 0 pads a sentence, 1 is the unknown token.
UNK == 1

\* text_utils.text_to_matrix(cur_text, vocab, max_len): one row of max_len
\* token indices per sentence; a sentence's own tokens have indices >= 2.
text_to_matrix(cur_text, max_len) ==
    [r \in 1..Len(cur_text) |->
        [c \in 1..max_len |-> IF c = 1 THEN cur_text[r] + 2 ELSE 0]]

\* image_utils.images_to_matrix(cur_images, image_matrix, image_idx2row):
\* one feature row per image.
images_to_matrix(cur_images) ==
    [r \in 1..Len(cur_images) |-> <<cur_images[r]>>]

-----------------------------------------------------------------------------
(* DocumentSequence                                                        *)

\* __len__
SeqLength(data_in, docs_per_batch) ==
    (Len(data_in) + docs_per_batch - 1) \div docs_per_batch

\* The documents of batch idx (lines 37-43) and data_in after they are
\* taken: the slice is a new list, so extending it leaves data_in alone.
BatchDocsAliased(data_in, docs_per_batch, idx) ==
    LET start == idx * docs_per_batch
        end == (idx + 1) * docs_per_batch
        cur_doc_b == Slice(data_in, start, end)
        docs_to_add == docs_per_batch - Len(cur_doc_b)
        wrap == idx = SeqLength(data_in, docs_per_batch) - 1
    IN  [cur_doc_b |-> IF wrap THEN cur_doc_b \o Slice(data_in, 0, docs_to_add)
                       ELSE cur_doc_b,
         data_in |-> IF wrap THEN data_in \o Slice(data_in, 0, docs_to_add)
                     ELSE data_in]

BatchDocs(data_in, docs_per_batch, idx) ==
    LET start == idx * docs_per_batch
        end == (idx + 1) * docs_per_batch
        cur_doc_b == Slice(data_in, start, end)
        docs_to_add == docs_per_batch - Len(cur_doc_b)
    IN  [cur_doc_b |-> IF idx = SeqLength(data_in, docs_per_batch) - 1
                       THEN cur_doc_b \o Slice(data_in, 0, docs_to_add)
                       ELSE cur_doc_b,
         data_in |-> data_in]

\* Lines 48-49: the identifiers of a document's images (vers[0]) and
\* sentences (vers[1]), each item's element 0.
Identifiers(items) == [i \in 1..Len(items) |-> items[i][1]]

\* Lines 51-63 for one modality: the optional shuffle, which subsampling
\* replaces by shuffle-then-truncate.
Subsampled(ids, shuffle, subsample) ==
    LET shuffled == IF shuffle /\ ~(subsample > 0) THEN Shuffle(ids) ELSE {ids}
    IN  IF subsample > 0
        THEN { Slice(p, 0, subsample) : p \in UNION { Shuffle(s) : s \in shuffled } }
        ELSE shuffled

\* Lines 76-81 and 87-92: the number of rows a modality is padded to.
PadLimitIgnoringSubsample(subsample, max_per_doc) == max_per_doc

PadLimit(subsample, max_per_doc) ==
    IF subsample > 0 THEN subsample ELSE max_per_doc

\* Lines 87-96: the text padding, whose first column is the unknown token.
TextPaddingAllZero(rows, cols) == Zeros(rows, cols)

TextPadding(rows, cols) ==
    [r \in 1..rows |-> [c \in 1..cols |-> IF c = 1 THEN UNK ELSE 0]]

\* Lines 65-105 for one document whose identifiers have been chosen: the
\* padded matrices and the true counts, or the exception raised.
PaddedDoc(self, cur_images, cur_text) ==
    LET images == images_to_matrix(cur_images)
        text == text_to_matrix(cur_text, self.args.seq_len)
        image_rows == PadLimit(self.args.subsample_image, self.max_images_per_doc)
                          - Len(images)
        text_rows == PadLimit(self.args.subsample_text, self.max_sentences_per_doc)
                          - Len(text)
    IN  IF self.args.end2end
        THEN \* line 66 reads the names augment and args, which nothing defines
             [error |-> "NameError", text |-> <<>>, image |-> <<>>,
              text_n |-> 0, image_n |-> 0]
        ELSE IF image_rows < 0 \/ text_rows < 0
        THEN \* np.zeros refuses a negative dimension
             [error |-> "ValueError", text |-> <<>>, image |-> <<>>,
              text_n |-> 0, image_n |-> 0]
        ELSE [error |-> "",
              text |-> text \o TextPadding(text_rows, self.args.seq_len),
              image |-> images \o Zeros(image_rows, 1),
              text_n |-> Len(text), image_n |-> Len(images)]

\* Every outcome of the loop body (lines 48-105) for one document.
DocOutcomes(self, vers) ==
    { PaddedDoc(self, ci, ct) :
        ci \in Subsampled(Identifiers(vers[1]), self.shuffle_images,
                          self.args.subsample_image),
        ct \in Subsampled(Identifiers(vers[2]), self.shuffle_sentences,
                          self.args.subsample_text) }

\* Every outcome of the loop over the documents of a batch, in order.
RECURSIVE LoopOutcomes(_, _)
LoopOutcomes(self, docs) ==
    IF docs = <<>> THEN { <<>> }
    ELSE { <<d>> \o rest : d \in DocOutcomes(self, Head(docs)),
                           rest \in LoopOutcomes(self, Tail(docs)) }

\* The exception that ends the loop: that of the first document that raises.
RECURSIVE FirstError(_)
FirstError(outs) ==
    IF outs = <<>> THEN ""
    ELSE IF Head(outs).error # "" THEN Head(outs).error
    ELSE FirstError(Tail(outs))

NoReturn == [kind |-> "none", idx |-> 0, cur_doc_b |-> <<>>, error |-> "",
             texts |-> <<>>, images |-> <<>>, text_n_docs |-> <<>>,
             image_n_docs |-> <<>>, y |-> <<>>]

\* Lines 107-118: the returned batch, or the exception.
Returned(idx, cur_doc_b, outs) ==
    IF FirstError(outs) # ""
    THEN [NoReturn EXCEPT !.kind = "raise", !.idx = idx, !.cur_doc_b = cur_doc_b,
                          !.error = FirstError(outs)]
    ELSE [kind |-> "batch", idx |-> idx, cur_doc_b |-> cur_doc_b, error |-> "",
          texts |-> [i \in 1..Len(outs) |-> outs[i].text],
          images |-> [i \in 1..Len(outs) |-> outs[i].image],
          text_n_docs |-> [i \in 1..Len(outs) |-> <<outs[i].text_n>>],
          image_n_docs |-> [i \in 1..Len(outs) |-> <<outs[i].image_n>>],
          y |-> << [i \in 1..Len(outs) |-> 0], [i \in 1..Len(outs) |-> 0] >>]

\* DocumentSequence.__getitem__(idx), for a batch index of the sequence.
GetItem(idx) ==
    /\ idx \in 0..(SeqLength(ds.data_in, ds.args.docs_per_batch) - 1)
    /\ LET b == BatchDocs(ds.data_in, ds.args.docs_per_batch, idx)
       IN  /\ ds' = [ds EXCEPT !.data_in = b.data_in]
           /\ \E outs \in LoopOutcomes(ds, b.cur_doc_b) :
                  ret' = Returned(idx, b.cur_doc_b, outs)
    /\ UNCHANGED <<data0, sdm, files, run, rlr, lri, lr>>

\* np.random.shuffle(self.data_in), line 123.
ShuffleDocs(data_in) == Shuffle(data_in)

\* DocumentSequence.on_epoch_end.  The training loop calls it between
\* epochs, when it holds no batch any more.
SeqOnEpochEnd ==
    /\ IF ds.shuffle_docs
       THEN \E d \in ShuffleDocs(ds.data_in) : ds' = [ds EXCEPT !.data_in = d]
       ELSE ds' = ds
    /\ ret' = NoReturn
    /\ UNCHANGED <<data0, sdm, files, run, rlr, lri, lr>>

\* Document k of a collection: its images and its sentences, each item a
\* tuple whose element 0 is the identifier.
Document(k, n_images, n_sentences) ==
    << [i \in 1..n_images |-> <<10 * k + i>>],
       [i \in 1..n_sentences |-> <<10 * k + i>>] >>

Idle == [idle |-> TRUE]

\* The constructor's arguments tried.  Sentences and images are handled by
\* separate statements of __getitem__, so the model varies one modality's
\* options at a time with the other left plain (no shuffle, no subsample),
\* and adds the setups in which both are shuffled or subsampled together.
Plain == [subsample |-> 0, shuffle |-> FALSE, max_per_doc |-> MaxItems]

Varied ==
    [subsample : 0..MaxSubsample, shuffle : BOOLEAN,
     max_per_doc : (MaxItems - 1)..MaxItems]

Setups ==
    { [text |-> t, image |-> Plain, shuffle_docs |-> sd] :
          t \in Varied, sd \in BOOLEAN }
    \cup { [text |-> Plain, image |-> i, shuffle_docs |-> sd] :
          i \in Varied, sd \in BOOLEAN }
    \cup { [text |-> m, image |-> m, shuffle_docs |-> FALSE] :
          m \in [subsample : {0, 1}, shuffle : {TRUE},
                 max_per_doc : {MaxItems}] }

\* The collection handed to the constructor: n documents whose numbers of
\* images and of sentences run through 0..MaxItems.
Collection(n) ==
    [k \in 1..n |-> Document(k, (k + 1) % (MaxItems + 1), k % (MaxItems + 1))]

InitSeq ==
    /\ \E n \in 0..MaxDocs, docs_per_batch \in 1..MaxBatch,
          end2end \in BOOLEAN, setup \in Setups :
        /\ ds = [data_in |-> Collection(n),
                 max_sentences_per_doc |-> setup.text.max_per_doc,
                 max_images_per_doc |-> setup.image.max_per_doc,
                 args |-> [docs_per_batch |-> docs_per_batch,
                           subsample_text |-> setup.text.subsample,
                           subsample_image |-> setup.image.subsample,
                           end2end |-> end2end,
                           seq_len |-> SeqLen],
                 shuffle_sentences |-> setup.text.shuffle,
                 shuffle_images |-> setup.image.shuffle,
                 shuffle_docs |-> setup.shuffle_docs]
        /\ data0 = ds.data_in
    /\ ret = NoReturn
    /\ sdm = Idle /\ files = {} /\ run = Idle /\ rlr = Idle /\ lri = Idle /\ lr = 0

NextSeq ==
    \/ \E idx \in 0..MaxDocs : GetItem(idx)
    \/ SeqOnEpochEnd

SpecSeq == InitSeq /\ [][NextSeq]_vars

-----------------------------------------------------------------------------
(* Properties of DocumentSequence, checked under SpecSeq.                  *)

DocsPerBatch == ds.args.docs_per_batch

\* The limit of a modality as the properties below state it: the subsample
\* count when subsampling is configured for it, otherwise the maximum per
\* document.
LimitText ==
    IF ds.args.subsample_text > 0 THEN ds.args.subsample_text
    ELSE ds.max_sentences_per_doc
LimitImage ==
    IF ds.args.subsample_image > 0 THEN ds.args.subsample_image
    ELSE ds.max_images_per_doc

\* The number of items of a document that reach its matrix.
Kept(items, subsample) ==
    IF subsample > 0 THEN Min(Len(items), subsample) ELSE Len(items)

\* s and t hold the same elements, each as many times.
IsPermutation(s, t) ==
    /\ Len(s) = Len(t)
    /\ \A i \in 1..Len(s) :
           Cardinality({ j \in 1..Len(s) : s[j] = s[i] })
               = Cardinality({ j \in 1..Len(t) : t[j] = s[i] })

\* C1: every batch __getitem__ returns has first dimension docs_per_batch
\* in all four of its tensors, the last batch included, N < B included.
C1_FirstDimensionIsDocsPerBatch ==
    ret.kind = "batch" =>
        /\ Len(ret.texts) = DocsPerBatch
        /\ Len(ret.images) = DocsPerBatch
        /\ Len(ret.text_n_docs) = DocsPerBatch
        /\ Len(ret.image_n_docs) = DocsPerBatch

\* C2: a batch before the last holds documents idx*B .. (idx+1)*B-1; when
\* N mod B # 0 the last batch holds the trailing N mod B documents followed
\* by the first B - N mod B documents of the collection.
C2_FinalBatchWrapsAround ==
    ret.kind # "none" =>
        LET N == Len(ds.data_in)
            B == DocsPerBatch
            r == N % B
            cur == ret.cur_doc_b
        IN  IF ret.idx < SeqLength(ds.data_in, B) - 1
            THEN cur = SubSeq(ds.data_in, ret.idx * B + 1, (ret.idx + 1) * B)
            ELSE r # 0 =>
                    /\ Len(cur) = B
                    /\ B - r <= N
                    /\ SubSeq(cur, 1, r) = SubSeq(ds.data_in, N - r + 1, N)
                    /\ SubSeq(cur, r + 1, B) = SubSeq(ds.data_in, 1, B - r)

\* C3: in every returned batch each document's recorded count is the number
\* of its items kept, is at most the modality's limit (the subsample count
\* when one is configured, otherwise the maximum per document), and its
\* padded matrix has exactly that many rows.
C3_CountsWithinLimitAndPaddedToLimit ==
    ret.kind = "batch" =>
        \A d \in 1..Len(ret.cur_doc_b) :
            /\ ret.text_n_docs[d][1] = Kept(ret.cur_doc_b[d][2], ds.args.subsample_text)
            /\ ret.text_n_docs[d][1] <= LimitText
            /\ Len(ret.texts[d]) = LimitText
            /\ ret.image_n_docs[d][1] = Kept(ret.cur_doc_b[d][1], ds.args.subsample_image)
            /\ ret.image_n_docs[d][1] <= LimitImage
            /\ Len(ret.images[d]) = LimitImage

\* A batch in which subsampling truncated one document's sentences and
\* left another document's sentences to be padded.
C3_Witness ==
    /\ ret.kind = "batch"
    /\ ds.args.subsample_text > 0
    /\ \E d \in 1..Len(ret.cur_doc_b) :
           Len(ret.cur_doc_b[d][2]) > ds.args.subsample_text
    /\ \E d \in 1..Len(ret.cur_doc_b) : ret.text_n_docs[d][1] < LimitText
    /\ \E d \in 1..Len(ret.cur_doc_b) : ret.image_n_docs[d][1] < LimitImage

\* C4: in the text tensor every row past a document's recorded sentence
\* count has the unknown-token index in its first column and 0 elsewhere.
C4_TextPaddingRowsStartWithUnk ==
    ret.kind = "batch" =>
        \A d \in 1..Len(ret.texts) :
            \A r \in (ret.text_n_docs[d][1] + 1)..Len(ret.texts[d]) :
                /\ Len(ret.texts[d][r]) = ds.args.seq_len
                /\ ret.texts[d][r][1] = UNK
                /\ \A c \in 2..Len(ret.texts[d][r]) : ret.texts[d][r][c] = 0

\* A batch taken with text subsampling on, in which a document has a
\* sentence row followed by a padding row.
C4_Witness ==
    /\ ret.kind = "batch"
    /\ ds.args.subsample_text > 0
    /\ \E d \in 1..Len(ret.texts) :
           /\ ret.text_n_docs[d][1] > 0
           /\ ret.text_n_docs[d][1] < Len(ret.texts[d])

\* C9: __getitem__ leaves the DocumentSequence, data_in included, as it
\* was; on_epoch_end leaves data_in as it was when shuffle_docs is off and
\* otherwise reorders it, losing and duplicating no document.
C9_DataInChangedOnlyByEpochEnd ==
    [][ /\ ret'.kind # "none" => ds' = ds
        /\ ret'.kind = "none" =>
              /\ IsPermutation(ds.data_in, ds'.data_in)
              /\ ~ds.shuffle_docs => ds'.data_in = ds.data_in
        /\ IsPermutation(data0, ds'.data_in) ]_vars

\* The wrapping last batch, taken with image shuffling on from a collection
\* that an epoch end has reordered.
C9_Witness ==
    /\ ret.kind = "batch"
    /\ ds.data_in # data0
    /\ ds.shuffle_images
    /\ ret.idx = SeqLength(ds.data_in, DocsPerBatch) - 1
    /\ Len(ds.data_in) % DocsPerBatch # 0

-----------------------------------------------------------------------------
(* SaveDocModels                                                           *)

\* Python's None.
None == <<>>

\* Line 143: the test that a validation loss is a new best.
ImprovesOrTies(val_loss, best_val_loss) == val_loss <= best_val_loss

Improves(val_loss, best_val_loss) == val_loss < best_val_loss

\* Lines 148-149: the path of a model file.  Losses are counted in units of
\* 1e-5, so the five decimals of {:.5f} show a loss exactly.
ModelPath(kind, epoch, val_loss) == <<kind, epoch, val_loss>>

\* SaveDocModels.on_train_begin
SaveOnTrainBegin ==
    /\ run.runs < MaxRuns
    /\ sdm' = [begun |-> TRUE, best_val_loss |-> Inf,
               best_checkpoints_and_logs |-> None]
    /\ run' = [runs |-> run.runs + 1, epoch |-> 0, seen |-> <<>>, wrote |-> {}]
    /\ UNCHANGED <<ds, ret, data0, files, rlr, lri, lr>>

\* SaveDocModels.on_epoch_end(epoch, logs), which the training loop calls
\* with the epochs of a run in order, after on_train_begin.
SaveOnEpochEnd(val_loss) ==
    /\ sdm.begun
    /\ run.epoch < MaxEpochs
    /\ LET epoch == run.epoch
           logs == [val_loss |-> val_loss]
           image_model_str == ModelPath("image_model", epoch, logs.val_loss)
           sentence_model_str == ModelPath("text_model", epoch, logs.val_loss)
       IN  IF Improves(logs.val_loss, sdm.best_val_loss)
           THEN /\ sdm' = [sdm EXCEPT
                             !.best_val_loss = logs.val_loss,
                             !.best_checkpoints_and_logs =
                                 <<image_model_str, sentence_model_str, logs, epoch>>]
                /\ files' = files \cup {sentence_model_str, image_model_str}
                /\ run' = [run EXCEPT !.epoch = epoch + 1,
                                      !.seen = Append(run.seen, val_loss),
                                      !.wrote = {sentence_model_str, image_model_str}]
           ELSE /\ UNCHANGED <<sdm, files>>
                /\ run' = [run EXCEPT !.epoch = epoch + 1,
                                      !.seen = Append(run.seen, val_loss),
                                      !.wrote = {}]
    /\ UNCHANGED <<ds, ret, data0, rlr, lri, lr>>

InitSave ==
    /\ sdm = [begun |-> FALSE, best_val_loss |-> Inf,
              best_checkpoints_and_logs |-> None]
    /\ files = {}
    /\ run = [runs |-> 0, epoch |-> 0, seen |-> <<>>, wrote |-> {}]
    /\ ds = Idle /\ ret = Idle /\ data0 = Idle /\ rlr = Idle /\ lri = Idle /\ lr = 0

NextSave ==
    \/ SaveOnTrainBegin
    \/ \E val_loss \in Losses \cup {Inf} : SaveOnEpochEnd(val_loss)

SpecSave == InitSave /\ [][NextSave]_vars

\* C5: an epoch end writes the two model files exactly when its val_loss is
\* strictly below infinity and below every val_loss of the run's earlier
\* epochs; otherwise it writes nothing and leaves best_val_loss and
\* best_checkpoints_and_logs as they were.
C5_SavesOnlyOnStrictImprovement ==
    [][ run'.epoch = run.epoch + 1 =>
          LET val_loss == run'.seen[Len(run'.seen)]
              epoch == run.epoch
              strictly_best ==
                  /\ val_loss < Inf
                  /\ \A i \in 1..Len(run.seen) : val_loss < run.seen[i]
              two == { ModelPath("image_model", epoch, val_loss),
                       ModelPath("text_model", epoch, val_loss) }
          IN  IF strictly_best
              THEN /\ run'.wrote = two
                   /\ two \subseteq files'
                   /\ sdm'.best_val_loss = val_loss
                   /\ sdm'.best_checkpoints_and_logs[4] = epoch
              ELSE /\ run'.wrote = {}
                   /\ files' = files
                   /\ sdm' = sdm ]_vars

\* An epoch whose val_loss equals the best so far has just ended, after an
\* earlier epoch of the run wrote its files.
C5_Witness ==
    /\ Len(run.seen) >= 2
    /\ run.seen[Len(run.seen)] = sdm.best_val_loss
    /\ run.wrote = {}
    /\ sdm.best_checkpoints_and_logs # None
    /\ files # {}

-----------------------------------------------------------------------------
(* ReduceLROnPlateauAfterValLoss, with the methods it inherits from        *)
(* tf.keras.callbacks.ReduceLROnPlateau (mode min).  Learning rates are    *)
(* integers and the reduction factor is one half.                          *)

\* ReduceLROnPlateau._reset
Reset(self) == [self EXCEPT !.best = Inf, !.cooldown_counter = 0, !.wait = 0]

\* ReduceLROnPlateau.monitor_op: np.less(a, b - min_delta)
MonitorOp(self, a, b) == IF b = Inf THEN a < Inf ELSE a < b - self.min_delta

\* ReduceLROnPlateau.in_cooldown, which the subclass overrides.
BaseInCooldown(self) ==
    [self |-> self, result |-> self.cooldown_counter > 0, resets |-> 0]

\* ReduceLROnPlateauAfterValLoss.in_cooldown: the object after the call,
\* the value returned, and how many times the call ran _reset.
InCooldownWithoutReset(self) ==
    LET activate == /\ ~self.val_threshold_activated
                    /\ self.current_logs.val_loss < self.activation_val_loss
        after == IF activate
                 THEN [self EXCEPT !.val_threshold_activated = TRUE]
                 ELSE self
    IN  [self |-> after,
         result |-> after.cooldown_counter > 0 \/ ~after.val_threshold_activated,
         resets |-> 0]

InCooldownCounterOnly(self) ==
    LET activate == /\ ~self.val_threshold_activated
                    /\ self.current_logs.val_loss < self.activation_val_loss
        after == IF activate
                 THEN Reset([self EXCEPT !.val_threshold_activated = TRUE])
                 ELSE self
    IN  [self |-> after,
         result |-> after.cooldown_counter > 0,
         resets |-> IF activate THEN 1 ELSE 0]

InCooldown(self) ==
    LET activate == /\ ~self.val_threshold_activated
                    /\ self.current_logs.val_loss < self.activation_val_loss
        after == IF activate
                 THEN Reset([self EXCEPT !.val_threshold_activated = TRUE])
                 ELSE self
    IN  [self |-> after,
         result |-> after.cooldown_counter > 0 \/ ~after.val_threshold_activated,
         resets |-> IF activate THEN 1 ELSE 0]

\* self.in_cooldown(): the method of the object's class.
CallInCooldown(self) ==
    IF self.class = "ReduceLROnPlateauAfterValLoss" THEN InCooldown(self)
    ELSE BaseInCooldown(self)

\* old_lr * factor, not below min_lr.
ReducedLr(self, old_lr) ==
    IF old_lr \div 2 > self.min_lr THEN old_lr \div 2 ELSE self.min_lr

\* ReduceLROnPlateau.on_epoch_end(epoch, logs): the object and the
\* optimizer's rate after the call, and the number of _reset calls made.
BaseOnEpochEnd(self, old_lr, logs) ==
    LET current == logs[self.monitor]
        c1 == CallInCooldown(self)
        s1 == IF c1.result
              THEN [c1.self EXCEPT !.cooldown_counter = @ - 1, !.wait = 0]
              ELSE c1.self
    IN  IF MonitorOp(s1, current, s1.best)
        THEN [self |-> [s1 EXCEPT !.best = current, !.wait = 0],
              lr |-> old_lr, resets |-> c1.resets]
        ELSE LET c2 == CallInCooldown(s1)
                 s2 == [c2.self EXCEPT !.wait = @ + 1]
             IN  IF c2.result
                 THEN [self |-> c2.self, lr |-> old_lr,
                       resets |-> c1.resets + c2.resets]
                 ELSE IF s2.wait >= s2.patience /\ old_lr > s2.min_lr
                 THEN [self |-> [s2 EXCEPT !.cooldown_counter = s2.cooldown,
                                           !.wait = 0],
                       lr |-> ReducedLr(s2, old_lr),
                       resets |-> c1.resets + c2.resets]
                 ELSE [self |-> s2, lr |-> old_lr,
                       resets |-> c1.resets + c2.resets]

\* The plain ReduceLROnPlateau with the same options, after _reset: the
\* detector's initial state.
FreshDetector(self) == Reset([self EXCEPT !.class = "ReduceLROnPlateau"])

\* ReduceLROnPlateauAfterValLoss.on_epoch_end(epoch, logs).  The history
\* run.ref follows a plain detector started at the first epoch whose
\* val_loss is below activation_val_loss.
PlateauOnEpochEnd(loss, val_loss) ==
    /\ run.epochs < MaxEpochs
    /\ LET logs == [loss |-> loss, val_loss |-> val_loss, lr |-> lr]
           after == BaseOnEpochEnd([rlr EXCEPT !.current_logs = logs], lr, logs)
           crossing == val_loss < rlr.activation_val_loss
           ref == IF run.crossed THEN BaseOnEpochEnd(run.ref, run.ref_lr, logs)
                  ELSE IF crossing THEN BaseOnEpochEnd(FreshDetector(rlr), lr, logs)
                  ELSE [self |-> run.ref, lr |-> run.ref_lr]
       IN  /\ rlr' = after.self
           /\ lr' = after.lr
           /\ run' = [epochs |-> run.epochs + 1,
                      dormant |-> IF after.self.val_threshold_activated
                                  THEN run.dormant ELSE run.dormant + 1,
                      crossed |-> run.crossed \/ crossing,
                      activation_resets |-> run.activation_resets + after.resets,
                      ref |-> ref.self, ref_lr |-> ref.lr]
    /\ UNCHANGED <<ds, ret, data0, sdm, files, lri>>

\* ReduceLROnPlateau.on_train_begin, inherited: _reset.
PlateauOnTrainBegin ==
    /\ rlr' = Reset(rlr)
    /\ run' = [run EXCEPT !.ref = Reset(run.ref)]
    /\ UNCHANGED <<ds, ret, data0, sdm, files, lri, lr>>

InitPlateau ==
    /\ \E activation_val_loss \in Losses \cup {Inf},
          monitor \in {"val_loss", "loss"},
          patience \in 1..MaxPatience, cooldown \in 0..MaxCooldown,
          min_delta \in {0, 1} :
        rlr = Reset([class |-> "ReduceLROnPlateauAfterValLoss",
                     monitor |-> monitor, patience |-> patience,
                     cooldown |-> cooldown, min_delta |-> min_delta,
                     min_lr |-> 1,
                     activation_val_loss |-> activation_val_loss,
                     val_threshold_activated |-> FALSE,
                     current_logs |-> None,
                     best |-> Inf, cooldown_counter |-> 0, wait |-> 0])
    /\ lr = 4
    /\ run = [epochs |-> 0, dormant |-> 0, crossed |-> FALSE,
              activation_resets |-> 0, ref |-> FreshDetector(rlr), ref_lr |-> lr]
    /\ ds = Idle /\ ret = Idle /\ data0 = Idle /\ sdm = Idle /\ files = {}
    /\ lri = Idle

NextPlateau ==
    \/ PlateauOnTrainBegin
    \/ \E loss \in Losses, val_loss \in Losses : PlateauOnEpochEnd(loss, val_loss)

SpecPlateau == InitPlateau /\ [][NextPlateau]_vars

\* C6: the rate is not reduced in an epoch that ends with
\* val_threshold_activated still False, which it is until the first epoch
\* whose val_loss is below activation_val_loss; once True the flag stays.
C6_NoReductionBeforeActivation ==
    [][ /\ ~rlr'.val_threshold_activated => lr' = lr
        /\ rlr.val_threshold_activated => rlr'.val_threshold_activated
        /\ run'.epochs = run.epochs + 1 =>
               rlr'.val_threshold_activated = run'.crossed ]_vars

\* Still dormant after two epochs, the last of which did not improve the
\* monitored value, with patience 1 and a rate that could be reduced: a
\* plain detector would have reduced it.
C6_Witness ==
    /\ ~rlr.val_threshold_activated
    /\ run.dormant >= 2
    /\ rlr.patience = 1
    /\ rlr.cooldown_counter <= -2
    /\ rlr.best < rlr.current_logs[rlr.monitor]
    /\ lr > rlr.min_lr

\* C7: the first epoch whose val_loss is below activation_val_loss resets
\* the detector, once: from then on its wait counter, cooldown counter and
\* best value, and the rate, are those of a detector started fresh at that
\* epoch, and no _reset is run by a later in_cooldown.
C7_ResetOnceAtActivation ==
    /\ run.activation_resets = IF run.crossed THEN 1 ELSE 0
    /\ run.crossed =>
          /\ rlr.val_threshold_activated
          /\ rlr.wait = run.ref.wait
          /\ rlr.cooldown_counter = run.ref.cooldown_counter
          /\ rlr.best = run.ref.best
          /\ lr = run.ref_lr

\* Activated after a dormant epoch, which left the cooldown counter
\* negative, and then the rate was reduced.
C7_Witness ==
    /\ rlr.val_threshold_activated
    /\ run.dormant >= 1
    /\ lr < 4
    /\ rlr.cooldown_counter >= 0

-----------------------------------------------------------------------------
(* LearningRateLinearIncrease.  Under SpecWarmup the rate lr is counted in  *)
(* units of 1/warmup_steps, so that the step 1./warmup_steps * max_lr is    *)
(* the integer max_lr and the rate max_lr is max_lr * warmup_steps.         *)

\* The mini-batches tried in one training run: past the warmup window.
BatchesPerRun == MaxWarmup + 1

\* Line 232: the warmup window has closed.
WindowClosedOneLate(cur_step_count, warmup_steps) == cur_step_count > warmup_steps

WindowClosed(cur_step_count, warmup_steps) == cur_step_count >= warmup_steps

\* LearningRateLinearIncrease.on_train_begin
WarmupOnTrainBegin ==
    /\ run.runs < MaxRuns
    /\ lr' = 0
    /\ run' = [run EXCEPT !.runs = @ + 1, !.begun = TRUE, !.batches = 0]
    /\ UNCHANGED <<ds, ret, data0, sdm, files, rlr, lri>>

\* LearningRateLinearIncrease.on_batch_begin(batch, logs)
WarmupOnBatchBegin ==
    /\ run.batches < BatchesPerRun
    /\ IF WindowClosed(lri.cur_step_count, lri.warmup_steps)
       THEN /\ UNCHANGED <<lri, lr>>
            /\ run' = [run EXCEPT !.batches = @ + 1,
                                  !.stray = @ \/ ~run.begun]
       ELSE /\ lr' = lr + lri.max_lr
            /\ lri' = [lri EXCEPT !.cur_step_count = @ + 1]
            /\ run' = [run EXCEPT !.batches = @ + 1,
                                  !.stray = @ \/ ~run.begun,
                                  !.increments = @ + 1]
    /\ UNCHANGED <<ds, ret, data0, sdm, files, rlr>>

\* After the constructor; the optimizer's rate is still its own, here 0 or
\* max_lr.
InitWarmup ==
    /\ \E max_lr \in 1..MaxLr, warmup_steps \in 1..MaxWarmup :
        /\ lri = [max_lr |-> max_lr, warmup_steps |-> warmup_steps,
                  cur_step_count |-> 0]
        /\ lr \in {0, max_lr * warmup_steps}
    /\ run = [runs |-> 0, begun |-> FALSE, batches |-> 0, stray |-> FALSE,
              increments |-> 0]
    /\ ds = Idle /\ ret = Idle /\ data0 = Idle /\ sdm = Idle /\ files = {}
    /\ rlr = Idle

NextWarmup ==
    \/ WarmupOnTrainBegin
    \/ WarmupOnBatchBegin

SpecWarmup == InitWarmup /\ [][NextWarmup]_vars

\* C8: in a training run started by on_train_begin, each of the first
\* warmup_steps mini-batches raises the rate by max_lr / warmup_steps, so
\* the rate is max_lr after warmup_steps of them, and later mini-batches
\* change nothing.  (Runs of an instance whose on_batch_begin was only ever
\* called inside a training run.)
C8_WarmupReachesMaxLrInEveryRun ==
    (run.begun /\ ~run.stray) =>
        lr = Min(run.batches, lri.warmup_steps) * lri.max_lr

\* C10: cur_step_count never decreases and never exceeds warmup_steps, the
\* callback raises the rate cur_step_count times in all, and from the first
\* on_train_begin on the rate never exceeds max_lr.
C10_StepCountBoundedForLife ==
    [][ /\ lri'.cur_step_count >= lri.cur_step_count
        /\ lri'.cur_step_count <= lri.warmup_steps
        /\ run'.increments = lri'.cur_step_count
        /\ run'.begun => lr' <= lri.max_lr * lri.warmup_steps ]_vars

\* A second training run of an instance that used up its warmup in the
\* first: mini-batches pass and the rate stays at 0.
C10_Witness ==
    /\ run.runs >= 2
    /\ run.batches >= 1
    /\ lri.cur_step_count = lri.warmup_steps
    /\ lr = 0

====
